---- MODULE Spec2Model ----
(***************************************************************************)
(* Model of gns3converter/converter.py (class Converter).                   *)
(*                                                                         *)
(*   Spec          Converter.generate_links on a node list and a list of   *)
(*                 candidate links (self.links)                            *)
(*   SpecPipeline  Converter.__init__, generate_nodes, generate_links, run *)
(*                 twice on the same device input                          *)
(*   SpecTopology  Converter.process_topology                              *)
(*                                                                         *)
(* Node (node.py), LegacyTopology (topology.py), INTERFACE_RE              *)
(* (interfaces.py), PORT_TYPES (adapters.py) and MODEL_TRANSFORM           *)
(* (models.py) are imported by converter.py; they are modelled from the    *)
(* design document.                                                        *)
(***************************************************************************)
EXTENDS Integers, Sequences, FiniteSets, TLC

VARIABLES
    port_id,        \* Converter.port_id: the next free port id
    self_links,     \* Converter.links: the candidate links
    nodes,          \* the node list (generate_nodes' result, generate_links' argument)
    links,          \* generate_links' local list `links`
    i,              \* position of the iterator of `for link in links` (1-based)
    link_id,        \* generate_links' local counter
    pc,             \* where the caller is
    resolved,       \* history: `links` as it was when the dedup scan began
    visited,        \* history: source_port_id of every link the scan visited
    devices,        \* generate_nodes' argument: the device names
    nports,         \* per device, the number of ports its Node creates
    nio,            \* per device, the network-I/O entry of its first port
    queue,          \* the rest of `for device in sorted(devices)`
    run,            \* 1 or 2: which run of the pipeline
    fresh,          \* the current run is made on a newly constructed Converter
    start_port_id,  \* history: self.port_id when generate_nodes was entered
    first,          \* history: the ids the first run assigned
    sections,       \* process_topology's argument: the host instances
    old_top,        \* process_topology's argument: instance -> item -> kind of value
    todo,           \* the rest of the two nested loops: <<instance, item>> pairs
    hv_id,          \* topo.hv_id
    conf,           \* topo.conf: the items routed to the configuration snippets
    phys,           \* topo.devices: the items merged into the device records
    raised          \* process_topology raised an error (it has no raise: stays FALSE)

linkVars == <<port_id, self_links, nodes, links, i, link_id, pc, resolved, visited>>
pipeVars == <<devices, nports, nio, queue, run, fresh, start_port_id, first>>
topoVars == <<sections, old_top, todo, hv_id, conf, phys, raised>>
vars == <<linkVars, pipeVars, topoVars>>

----------------------------------------------------------------------------
(* Bounds *)

MaxLinks == 4
MaxPorts == 2

----------------------------------------------------------------------------
(* Values *)

\* Python's None, for an id
Null == 0

\* '%s' % None
NoneStr == "None"

\* the cloud sentinel
NIO == "NIO"

Min(S) == CHOOSE x \in S : \A y \in S : x <= y
Max(S) == CHOOSE x \in S : \A y \in S : x >= y

Digits == <<"0", "1", "2", "3", "4", "5", "6", "7", "8", "9">>

\* str(x) of an id or of None, as a sequence of characters
RECURSIVE Str(_)
Str(n) ==
    IF n = Null THEN <<"N", "o", "n", "e">>
    ELSE IF n < 10 THEN <<Digits[n + 1]>>
    ELSE Str(n \div 10) \o <<Digits[(n % 10) + 1]>>

\* str(node_id) + ':' + str(port_id)
Key(node_id, pid) == Str(node_id) \o <<":">> \o Str(pid)

----------------------------------------------------------------------------
(* Port names.  A name is a tuple whose head is the letter code or the      *)
(* adapter type and whose tail is the numeric addressing.                   *)

PORT_TYPES == [f |-> "FastEthernet", e |-> "Ethernet"]

ShortCodes == {"f", "e"}

\* INTERFACE_RE.search(name)
InterfaceMatch(name) == Len(name) > 1 /\ name[1] \in ShortCodes

ExpandCode(code) == IF code = "f" THEN PORT_TYPES.f ELSE PORT_TYPES.e

\* "Expand port name if required"
ExpandPort(name) ==
    IF InterfaceMatch(name)
    THEN [k \in 1..Len(name) |-> IF k = 1 THEN ExpandCode(name[1]) ELSE name[k]]
    ELSE name

----------------------------------------------------------------------------
(* Lookups in the node list *)

NoDevice == [id |-> Null, name |-> NoneStr, port_id |-> Null]

\* for port in node['ports']: if name == port['name']: port_id = port['id']; break
PortIdByName(ports, name) ==
    LET S == {k \in 1..Len(ports) : ports[k].name = name}
    IN  IF S = {} THEN Null ELSE ports[Min(S)].id

\* a plausible slip: device_id is assigned before the name is compared, so a
\* destination that matches no node keeps the id of the last node looked at
ConvertDestinationToId_IdBeforeTest(destination_node, destination_port, ns) ==
    IF destination_node # NIO
    THEN LET S == {k \in 1..Len(ns) : ns[k].name = destination_node}
         IN  IF S = {}
             THEN [id |-> IF ns = <<>> THEN Null ELSE ns[Len(ns)].id,
                   name |-> NoneStr, port_id |-> Null]
             ELSE LET n == ns[Min(S)]
                  IN  [id |-> n.id, name |-> destination_node,
                       port_id |-> PortIdByName(n.ports, destination_port)]
    ELSE LET S == {k \in 1..Len(ns) : ns[k].type = "Cloud"}
         IN  IF S = {} THEN NoDevice
             ELSE LET n == ns[Min(S)]
                      p == PortIdByName(n.ports, destination_port)
                  IN  IF p = Null THEN NoDevice
                      ELSE [id |-> n.id, name |-> n.name, port_id |-> p]

ConvertDestinationToId(destination_node, destination_port, ns) ==
    IF destination_node # NIO
    THEN LET S == {k \in 1..Len(ns) : ns[k].name = destination_node}
         IN  IF S = {} THEN NoDevice
             ELSE LET n == ns[Min(S)]
                  IN  [id |-> n.id, name |-> destination_node,
                       port_id |-> PortIdByName(n.ports, destination_port)]
    ELSE LET S == {k \in 1..Len(ns) : ns[k].type = "Cloud"}
         IN  IF S = {} THEN NoDevice
             ELSE LET n == ns[Min(S)]   \* the outer break: only the first Cloud
                      p == PortIdByName(n.ports, destination_port)
                  IN  IF p = Null THEN NoDevice
                      ELSE [id |-> n.id, name |-> n.name, port_id |-> p]

GetNodeNameFromId(node_id, ns) ==
    LET S == {k \in 1..Len(ns) : ns[k].id = node_id}
    IN  IF S = {} THEN "" ELSE ns[Min(S)].name

\* no break on the node loop: the last node that has the port decides
GetPortNameFromId(node_id, pid, ns) ==
    LET S == {k \in 1..Len(ns) :
                /\ ns[k].id = node_id
                /\ \E q \in 1..Len(ns[k].ports) : ns[k].ports[q].id = pid}
    IN  IF S = {} THEN <<>>
        ELSE LET ps == ns[Max(S)].ports
             IN  ps[Min({q \in 1..Len(ps) : ps[q].id = pid})].name

\* for port in node['ports']: if port['id'] == pid: set link_id, description; break
AnnotatePort(ports, pid, lid, desc) ==
    LET S == {q \in 1..Len(ports) : ports[q].id = pid}
    IN  IF S = {} THEN ports
        ELSE [ports EXCEPT ![Min(S)] = [@ EXCEPT !.link_id = lid, !.description = desc]]

AddNodeConnections(link, ns) ==
    LET src_desc ==
            <<GetNodeNameFromId(link.destination_node_id, ns),
              GetPortNameFromId(link.destination_node_id, link.destination_port_id, ns)>>
        dest_desc ==
            <<GetNodeNameFromId(link.source_node_id, ns),
              GetPortNameFromId(link.source_node_id, link.source_port_id, ns)>>
    IN  [k \in 1..Len(ns) |->
            IF ns[k].id = link.source_node_id
            THEN [ns[k] EXCEPT !.ports =
                    AnnotatePort(@, link.source_port_id, link.id, src_desc)]
            ELSE IF ns[k].id = link.destination_node_id
            THEN [ns[k] EXCEPT !.ports =
                    AnnotatePort(@, link.destination_port_id, link.id, dest_desc)]
            ELSE ns[k]]

----------------------------------------------------------------------------
(* generate_links *)

\* the body of the first loop of generate_links
ResolveLink(c, ns) ==
    LET dest_port == ExpandPort(c.dest_port)
        d == ConvertDestinationToId(c.dest_dev, dest_port, ns)
    IN  [description |-> <<c.source_dev, c.source_port_name, d.name, dest_port>>,
         destination_node_id |-> d.id,
         destination_port_id |-> d.port_id,
         source_port_id |-> c.source_port_id,
         source_node_id |-> c.source_node_id,
         id |-> Null]

\* a plausible slip: link2's source is compared, not its destination
FirstDup_SourceKey(ls, t_link) ==
    LET S == {j \in 1..Len(ls) :
                Key(ls[j].source_node_id, ls[j].source_port_id) = t_link}
    IN  IF S = {} THEN 0 ELSE Min(S)

\* the inner loop: the index of the first link2 whose d_link equals t_link, or 0
FirstDup(ls, t_link) ==
    LET S == {j \in 1..Len(ls) :
                Key(ls[j].destination_node_id, ls[j].destination_port_id) = t_link}
    IN  IF S = {} THEN 0 ELSE Min(S)

\* the index list.remove(x) removes: the first element equal to x
RemovedIndex(ls, x) == Min({k \in 1..Len(ls) : ls[k] = x})

RemoveAt(ls, k) == [q \in 1..(Len(ls) - 1) |-> IF q < k THEN ls[q] ELSE ls[q + 1]]

ResolveLinks ==
    /\ pc = "links"
    /\ links' = [k \in 1..Len(self_links) |-> ResolveLink(self_links[k], nodes)]
    /\ resolved' = links'
    /\ visited' = <<>>
    /\ link_id' = 1
    /\ i' = 1
    /\ pc' = "dedup"
    /\ UNCHANGED <<port_id, self_links, nodes, pipeVars, topoVars>>

\* one pass of the body of `for link in links`
DedupStep ==
    /\ pc = "dedup"
    /\ i <= Len(links)
    /\ LET link == links[i]
           t_link == Key(link.source_node_id, link.source_port_id)
           j == FirstDup(links, t_link)
           k == IF j = 0 THEN 0 ELSE RemovedIndex(links, links[j])
           rest == IF k = 0 THEN links ELSE RemoveAt(links, k)
           \* where the object `link` now is in the list (0: no longer in it)
           pos == IF k = 0 \/ k > i THEN i ELSE IF k = i THEN 0 ELSE i - 1
           numbered == [link EXCEPT !.id = link_id]
       IN  /\ links' = IF pos = 0 THEN rest ELSE [rest EXCEPT ![pos] = numbered]
           /\ nodes' = AddNodeConnections(numbered, nodes)
           /\ visited' = Append(visited, link.source_port_id)
    /\ link_id' = link_id + 1
    /\ i' = i + 1
    /\ UNCHANGED <<port_id, self_links, pc, resolved, pipeVars, topoVars>>

ReturnLinks ==
    /\ pc = "dedup"
    /\ i > Len(links)
    /\ pc' = "done"
    /\ UNCHANGED <<port_id, self_links, nodes, links, i, link_id, resolved, visited,
                   pipeVars, topoVars>>

----------------------------------------------------------------------------
(* Inputs of generate_links *)

Port(id, name) == [id |-> id, name |-> name, link_id |-> Null, description |-> <<>>]

Fa(k) == <<"FastEthernet", 0, k>>
Gen(k) == <<"nio_gen_eth:eth", k>>

\* three routers
TopoRouters ==
    << [id |-> 1, name |-> "R1", type |-> "Router", ports |-> <<Port(1, Fa(0)), Port(2, Fa(1))>>],
       [id |-> 2, name |-> "R2", type |-> "Router", ports |-> <<Port(3, Fa(0))>>],
       [id |-> 3, name |-> "R3", type |-> "Router", ports |-> <<Port(4, Fa(0))>>] >>

\* two clouds and a router
TopoClouds ==
    << [id |-> 1, name |-> "C1", type |-> "Cloud", ports |-> <<Port(1, Gen(0))>>],
       [id |-> 2, name |-> "C2", type |-> "Cloud", ports |-> <<Port(2, Gen(1))>>],
       [id |-> 3, name |-> "R1", type |-> "Router", ports |-> <<Port(3, Fa(0)), Port(4, Fa(1))>>] >>

Topologies == {TopoRouters, TopoClouds}

\* the (device, port) destinations a network-I/O entry may name
Dests(ns) ==
    IF ns = TopoRouters
    THEN { <<"R1", <<"f", 0, 0>> >>, <<"R1", <<"f", 0, 1>> >>, <<"R2", <<"f", 0, 0>> >>,
           <<"R3", <<"f", 0, 0>> >>, <<"R2", <<"f", 0, 1>> >>, <<"RX", <<"f", 0, 0>> >> }
    ELSE { <<NIO, Gen(0)>>, <<NIO, Gen(1)>>, <<NIO, Gen(2)>>,
           <<"R1", <<"f", 0, 0>> >>, <<"R1", <<"f", 0, 1>> >> }

\* the ports of a node list, as <<node index, port index>>
PortRefs(ns) == UNION {{<<n, q>> : q \in 1..Len(ns[n].ports)} : n \in 1..Len(ns)}

Candidate(ns, r, d) ==
    [source_node_id |-> ns[r[1]].id,
     source_port_id |-> ns[r[1]].ports[r[2]].id,
     source_port_name |-> ns[r[1]].ports[r[2]].name,
     source_dev |-> ns[r[1]].name,
     dest_dev |-> d[1],
     dest_port |-> d[2]]

Init ==
    /\ nodes \in Topologies
    /\ \E n \in 0..MaxLinks :
         \E srcs \in [1..n -> PortRefs(nodes)], dsts \in [1..n -> Dests(nodes)] :
            /\ \A a, b \in 1..n : a # b => srcs[a] # srcs[b]
            /\ self_links = [k \in 1..n |-> Candidate(nodes, srcs[k], dsts[k])]
    /\ port_id = 5
    /\ links = <<>>
    /\ resolved = <<>>
    /\ visited = <<>>
    /\ i = 1
    /\ link_id = 1
    /\ pc = "links"
    /\ devices = {}
    /\ nports = <<>>
    /\ nio = <<>>
    /\ queue = <<>>
    /\ run = 1
    /\ fresh = TRUE
    /\ start_port_id = 1
    /\ first = <<>>
    /\ sections = <<>>
    /\ old_top = <<>>
    /\ todo = <<>>
    /\ hv_id = 0
    /\ conf = {}
    /\ phys = {}
    /\ raised = FALSE

Next == ResolveLinks \/ DedupStep \/ ReturnLinks

Spec == Init /\ [][Next]_vars

----------------------------------------------------------------------------
(* Properties of generate_links (Spec) *)

SrcPair(l) == <<l.source_node_id, l.source_port_id>>
DstPair(l) == <<l.destination_node_id, l.destination_port_id>>

Mirror(l, m) == SrcPair(l) = DstPair(m) /\ SrcPair(m) = DstPair(l)

\* the duplicate rule of the scan: one's source pair is the other's destination pair
Duplicates(l, m) == SrcPair(l) = DstPair(m) \/ SrcPair(m) = DstPair(l)

Edge(l) == {SrcPair(l), DstPair(l)}

Returned(l) == \E k \in 1..Len(links) : links[k].source_port_id = l.source_port_id

\* C1: the list generate_links returns holds no two distinct links that are mirror
\* images of each other.
C1_NoMirroredLinks ==
    pc = "done" =>
        \A a, b \in 1..Len(links) : a # b => ~Mirror(links[a], links[b])

\* C2: every returned link carries an id, and the ids in list order are 1, 2, ..., n.
C2_SequentialIds ==
    pc = "done" => \A k \in 1..Len(links) : links[k].id = k

\* every adjacency is declared once from each side, every destination resolves,
\* and no port takes part in two adjacencies
PairedAdjacencies(ls) ==
    \A a \in 1..Len(ls) :
        /\ ls[a].destination_node_id # Null
        /\ ls[a].destination_port_id # Null
        /\ SrcPair(ls[a]) # DstPair(ls[a])
        /\ \E b \in 1..Len(ls) :
              /\ b # a
              /\ Mirror(ls[a], ls[b])
              /\ \A c \in 1..Len(ls) : c \notin {a, b} => Edge(ls[c]) \cap Edge(ls[a]) = {}

\* C3: when every adjacency is declared by exactly two mirrored candidates, all
\* destinations resolve and no port is in two adjacencies, generate_links returns
\* exactly one link per adjacency, numbered 1..n, whatever the candidates' order;
\* one mirrored adjacency yields one link with id 1.
C3_OneLinkPerAdjacency ==
    (pc = "done" /\ PairedAdjacencies(resolved)) =>
        /\ 2 * Len(links) = Len(resolved)
        /\ \A a \in 1..Len(resolved) :
              Cardinality({k \in 1..Len(links) : Edge(links[k]) = Edge(resolved[a])}) = 1
        /\ \A k \in 1..Len(links) : links[k].id = k
        /\ (Len(resolved) = 2 => (Len(links) = 1 /\ links[1].id = 1))

\* two adjacencies, declared in an order that interleaves them, gave two links
C3_Witness ==
    /\ pc = "done"
    /\ PairedAdjacencies(resolved)
    /\ Len(resolved) = 4
    /\ ~Mirror(resolved[1], resolved[2])
    /\ Len(links) = 2

NodeNamed(name) == {k \in 1..Len(nodes) : nodes[k].name = name}

HasPortNamed(n, name) == \E q \in 1..Len(n.ports) : n.ports[q].name = name

UnknownDevice(c) == c.dest_dev # NIO /\ NodeNamed(c.dest_dev) = {}

UnknownPort(c) ==
    /\ c.dest_dev # NIO
    /\ NodeNamed(c.dest_dev) # {}
    /\ ~HasPortNamed(nodes[Min(NodeNamed(c.dest_dev))], ExpandPort(c.dest_port))

\* C5: generate_links finishes on a candidate whose destination device is no node,
\* and returns a link for it with both destination ids null; when the device exists
\* without the named port, the link has the device's id and a null port id.
C5_UnresolvedKept ==
    /\ pc = "dedup" => (i <= Len(resolved) + 1 /\ Len(links) <= Len(resolved))
    /\ pc = "done" =>
        \A k \in 1..Len(self_links) :
            LET c == self_links[k] IN
            /\ UnknownDevice(c) =>
                 \E q \in 1..Len(links) :
                    /\ SrcPair(links[q]) = <<c.source_node_id, c.source_port_id>>
                    /\ links[q].destination_node_id = Null
                    /\ links[q].destination_port_id = Null
            /\ UnknownPort(c) =>
                 \E q \in 1..Len(links) :
                    /\ SrcPair(links[q]) = <<c.source_node_id, c.source_port_id>>
                    /\ links[q].destination_node_id = nodes[Min(NodeNamed(c.dest_dev))].id
                    /\ links[q].destination_port_id = Null

C5_Witness ==
    /\ pc = "done"
    /\ \E k \in 1..Len(self_links) : UnknownDevice(self_links[k])
    /\ \E k \in 1..Len(self_links) : UnknownPort(self_links[k])
    /\ Len(links) < Len(self_links)

CloudsWithPort(name) ==
    {k \in 1..Len(nodes) : nodes[k].type = "Cloud" /\ HasPortNamed(nodes[k], name)}

\* C6: a destination on the cloud sentinel whose expanded port name some Cloud node
\* has resolves to the id of such a Cloud node and of that port, wherever that
\* Cloud node stands among the Cloud nodes.
C6_CloudResolved ==
    pc \in {"dedup", "done"} =>
        \A k \in 1..Len(self_links) :
            LET c == self_links[k]
                S == CloudsWithPort(ExpandPort(c.dest_port))
            IN  (c.dest_dev = NIO /\ S # {}) =>
                    \E n \in S :
                        /\ resolved[k].destination_node_id = nodes[n].id
                        /\ resolved[k].destination_port_id =
                               PortIdByName(nodes[n].ports, ExpandPort(c.dest_port))
                        /\ resolved[k].destination_port_id # Null

PortOf(pair) ==
    {r \in PortRefs(nodes) :
        /\ nodes[r[1]].id = pair[1]
        /\ nodes[r[1]].ports[r[2]].id = pair[2]}

Annotated(pair, peer, lid) ==
    \A r \in PortOf(pair) :
        /\ nodes[r[1]].ports[r[2]].link_id = lid
        /\ \A s \in PortOf(peer) :
              nodes[r[1]].ports[r[2]].description =
                  <<nodes[s[1]].name, nodes[s[1]].ports[s[2]].name>>

\* C7: after generate_links, both endpoint ports of every returned link whose
\* endpoints are real ports carry the link's id and a description naming the peer
\* node and port, also when both ports are on the same node.
C7_EndpointsAnnotated ==
    pc = "done" =>
        \A k \in 1..Len(links) :
            (PortOf(SrcPair(links[k])) # {} /\ PortOf(DstPair(links[k])) # {}) =>
                /\ Annotated(SrcPair(links[k]), DstPair(links[k]), links[k].id)
                /\ Annotated(DstPair(links[k]), SrcPair(links[k]), links[k].id)

Visits(l) == Cardinality({v \in 1..Len(visited) : visited[v] = l.source_port_id})

\* C10: of two duplicate resolved links the scan removes exactly the later one and
\* returns the earlier one, and it visits every link it does not remove exactly once.
C10_KeepsEarlierVisitsAll ==
    pc = "done" =>
        /\ \A a, b \in 1..Len(resolved) :
              (a < b /\ Duplicates(resolved[a], resolved[b])) =>
                  (Returned(resolved[a]) /\ ~Returned(resolved[b]))
        /\ \A a \in 1..Len(resolved) :
              Returned(resolved[a]) => Visits(resolved[a]) = 1

----------------------------------------------------------------------------
(* generate_nodes, and the pipeline run twice (SpecPipeline) *)

\* the device names the input draws from, in sorted() order
DeviceOrder == <<"C1", "R1", "R2">>

DeviceNames == {DeviceOrder[k] : k \in 1..Len(DeviceOrder)}

\* sorted(devices)
Sorted(ds) == SelectSeq(DeviceOrder, LAMBDA d : d \in ds)

\* devices[device]['node_id']
NodeIdOf(device) == Min({k \in 1..Len(DeviceOrder) : DeviceOrder[k] = device})

\* devices[device]['type']
TypeOf(device) == IF device = "C1" THEN "Cloud" ELSE "Router"

PortName(type, k) == IF type = "Cloud" THEN Gen(k) ELSE Fa(k)

NoNio == <<>>

NioChoices ==
    { NoNio, <<"R1", <<"f", 0, 0>> >>, <<"R2", <<"f", 0, 0>> >>,
      <<NIO, Gen(0)>>, <<"RX", <<"f", 0, 0>> >> }

\* Node(hypervisor, port_id) after the calls generate_nodes makes on it: the node
\* with its ports numbered from the cursor, and the candidate link of its first port
NodeOf(device, cursor) ==
    [id |-> NodeIdOf(device),
     name |-> device,
     type |-> TypeOf(device),
     ports |-> [k \in 1..nports[device] |->
                    Port(cursor + k - 1, PortName(TypeOf(device), k - 1))]]

\* tmp_node.links
NodeLinks(device, cursor) ==
    IF nio[device] = NoNio \/ nports[device] = 0 THEN <<>>
    ELSE << [source_node_id |-> NodeIdOf(device),
             source_port_id |-> cursor,
             source_port_name |-> PortName(TypeOf(device), 0),
             source_dev |-> device,
             dest_dev |-> nio[device][1],
             dest_port |-> nio[device][2]] >>

\* tmp_node.get_nb_added_ports(self.port_id)
GetNbAddedPorts(device, cursor) == nports[device]

\* a plausible slip: = for +=
NextPortId_Assign(cursor, added) == added

\* self.port_id += tmp_node.get_nb_added_ports(self.port_id)
NextPortId(cursor, added) == cursor + added

\* what a run assigned: node ids, port ids, and the links with their ids
Ids(ns, ls) ==
    [node_ids |-> [k \in 1..Len(ns) |-> ns[k].id],
     port_ids |-> [k \in 1..Len(ns) |->
                      [q \in 1..Len(ns[k].ports) |-> ns[k].ports[q].id]],
     links |-> [k \in 1..Len(ls) |-> <<ls[k].id, SrcPair(ls[k]), DstPair(ls[k])>>]]

\* a list shared by all Converter objects: the new object sees the old candidates
ConverterInit_SharedLinks ==
    /\ pc = "done"
    /\ run = 1
    /\ port_id' = 1
    /\ self_links' = self_links
    /\ first' = Ids(nodes, links)
    /\ run' = 2
    /\ fresh' = TRUE
    /\ pc' = "ready"
    /\ UNCHANGED <<nodes, links, i, link_id, resolved, visited,
                   devices, nports, nio, queue, start_port_id, topoVars>>

\* Converter(topology): a new object for the second run
ConverterInit ==
    /\ pc = "done"
    /\ run = 1
    /\ port_id' = 1
    /\ self_links' = <<>>
    /\ first' = Ids(nodes, links)
    /\ run' = 2
    /\ fresh' = TRUE
    /\ pc' = "ready"
    /\ UNCHANGED <<nodes, links, i, link_id, resolved, visited,
                   devices, nports, nio, queue, start_port_id, topoVars>>

\* generate_nodes is entered: on the object just constructed, or, for the second
\* run, on the object the first run used
GenerateNodesEnter ==
    /\ \/ /\ pc = "ready"
          /\ UNCHANGED <<run, fresh, first>>
       \/ /\ pc = "done"
          /\ run = 1
          /\ run' = 2
          /\ fresh' = FALSE
          /\ first' = Ids(nodes, links)
    /\ nodes' = <<>>
    /\ queue' = Sorted(devices)
    /\ start_port_id' = port_id
    /\ pc' = "nodes"
    /\ UNCHANGED <<port_id, self_links, links, i, link_id, resolved, visited,
                   devices, nports, nio, topoVars>>

\* one pass of the body of `for device in sorted(devices)`
GenerateNodesStep ==
    /\ pc = "nodes"
    /\ queue # <<>>
    /\ LET device == Head(queue)
       IN  /\ nodes' = Append(nodes, NodeOf(device, port_id))
           /\ self_links' = self_links \o NodeLinks(device, port_id)
           /\ port_id' = NextPortId(port_id, GetNbAddedPorts(device, port_id))
    /\ queue' = Tail(queue)
    /\ UNCHANGED <<links, i, link_id, pc, resolved, visited,
                   devices, nports, nio, run, fresh, start_port_id, first, topoVars>>

GenerateNodesReturn ==
    /\ pc = "nodes"
    /\ queue = <<>>
    /\ pc' = "links"
    /\ UNCHANGED <<port_id, self_links, nodes, links, i, link_id, resolved, visited,
                   pipeVars, topoVars>>

InitPipeline ==
    /\ devices \in (SUBSET DeviceNames) \ {{}}
    /\ nports \in [devices -> 0..MaxPorts]
    /\ nio \in [devices -> NioChoices]
    /\ port_id = 1
    /\ self_links = <<>>
    /\ nodes = <<>>
    /\ links = <<>>
    /\ resolved = <<>>
    /\ visited = <<>>
    /\ i = 1
    /\ link_id = 1
    /\ pc = "ready"
    /\ queue = <<>>
    /\ run = 1
    /\ fresh = TRUE
    /\ start_port_id = 1
    /\ first = <<>>
    /\ sections = <<>>
    /\ old_top = <<>>
    /\ todo = <<>>
    /\ hv_id = 0
    /\ conf = {}
    /\ phys = {}
    /\ raised = FALSE

NextPipeline ==
    \/ ConverterInit
    \/ GenerateNodesEnter
    \/ GenerateNodesStep
    \/ GenerateNodesReturn
    \/ ResolveLinks
    \/ DedupStep
    \/ ReturnLinks

SpecPipeline == InitPipeline /\ [][NextPipeline]_vars

\* the port ids of a node list, in the order the ports were created
RECURSIVE AllPortIds(_)
AllPortIds(ns) ==
    IF ns = <<>> THEN <<>>
    ELSE [q \in 1..Len(Head(ns).ports) |-> Head(ns).ports[q].id] \o AllPortIds(Tail(ns))

\* C4: across the nodes of generate_nodes, port ids strictly increase in creation
\* order (so no two are equal), the first is the cursor the call started with (1 on
\* a new Converter), and after each node the cursor self.port_id has advanced by
\* exactly the number of ports created so far: never decreased, reset or reused.
C4_PortIdsIncrease ==
    pc \in {"nodes", "links", "dedup", "done"} =>
        LET ids == AllPortIds(nodes) IN
        /\ \A a, b \in 1..Len(ids) : a < b => ids[a] < ids[b]
        /\ \A a \in 1..Len(ids) : ids[a] = start_port_id + a - 1
        /\ port_id = start_port_id + Len(ids)
        /\ port_id >= start_port_id
        /\ fresh => start_port_id = 1

C4_Witness ==
    /\ pc = "links"
    /\ Len(nodes) = 3
    /\ Len(AllPortIds(nodes)) >= 4
    /\ nodes[2].ports = <<>>

\* C9 as stated: a second run on identical device input yields the same node ids,
\* port ids and links as the first, also on the Converter the first run used.
C9_SecondRunSame ==
    (pc = "done" /\ run = 2) => Ids(nodes, links) = first

\* C9 amended: ... when the second run is made on a newly constructed Converter.
C9_SecondRunSameOnNewConverter ==
    (pc = "done" /\ run = 2 /\ fresh) => Ids(nodes, links) = first

C9_Witness ==
    /\ pc = "done"
    /\ run = 2
    /\ fresh
    /\ Len(nodes) >= 2
    /\ Len(links) >= 1
    /\ Len(links) < Len(self_links)
    /\ Ids(nodes, links) = first

----------------------------------------------------------------------------
(* process_topology (SpecTopology) *)

\* the host instances the input draws from, in sorted() order
InstanceOrder == <<"127.0.0.1:7200", "127.0.0.1:7201">>

\* the item names the input draws from, in sorted() order
ItemOrder == <<"3725", "ROUTER R1", "workingdir">>

\* the names in the config-role table
MODEL_TRANSFORM == {"3725", "7200"}

\* the value of an item: a nested mapping or a plain value
Kinds == {"dict", "scalar"}

Names(seq) == {seq[k] : k \in 1..Len(seq)}

SortedInstances == SelectSeq(InstanceOrder, LAMBDA x : x \in sections)

SortedItems(instance) ==
    SelectSeq(ItemOrder, LAMBDA x : x \in DOMAIN old_top[instance])

\* what the body of the inner loop does with an item
Classify(item, kind) ==
    IF kind = "dict"
    THEN IF item \in MODEL_TRANSFORM THEN "conf" ELSE "physical"
    ELSE "skipped"

\* `for instance in sorted(sections)` takes the next instance
TopoNextInstance ==
    /\ pc = "topo_instance"
    /\ hv_id < Len(SortedInstances)
    /\ todo' = SortedItems(SortedInstances[hv_id + 1])
    /\ pc' = "topo_items"
    /\ UNCHANGED <<port_id, self_links, nodes, links, i, link_id, resolved, visited,
                   pipeVars, sections, old_top, hv_id, conf, phys, raised>>

\* one pass of the body of `for item in sorted(old_top[instance])`
TopoProcessItem ==
    /\ pc = "topo_items"
    /\ todo # <<>>
    /\ LET instance == SortedInstances[hv_id + 1]
           item == Head(todo)
           class == Classify(item, old_top[instance][item])
       IN  /\ conf' = IF class = "conf" THEN conf \cup {<<instance, item>>} ELSE conf
           /\ phys' = IF class = "physical" THEN phys \cup {<<instance, item>>} ELSE phys
    /\ todo' = Tail(todo)
    /\ UNCHANGED <<linkVars, pipeVars, sections, old_top, hv_id, raised>>

\* topo.hv_id += 1
TopoEndInstance ==
    /\ pc = "topo_items"
    /\ todo = <<>>
    /\ hv_id' = hv_id + 1
    /\ pc' = "topo_instance"
    /\ UNCHANGED <<port_id, self_links, nodes, links, i, link_id, resolved, visited,
                   pipeVars, sections, old_top, todo, conf, phys, raised>>

\* return topo.devices, topo.conf
TopoReturn ==
    /\ pc = "topo_instance"
    /\ hv_id >= Len(SortedInstances)
    /\ pc' = "topo_done"
    /\ UNCHANGED <<port_id, self_links, nodes, links, i, link_id, resolved, visited,
                   pipeVars, topoVars>>

InitTopology ==
    /\ sections \in (SUBSET Names(InstanceOrder)) \ {{}}
    /\ \E given \in [sections -> [Names(ItemOrder) -> Kinds \cup {"absent"}]] :
          old_top = [s \in sections |->
                        [x \in {n \in Names(ItemOrder) : given[s][n] # "absent"} |->
                            given[s][x]]]
    /\ todo = <<>>
    /\ hv_id = 0
    /\ conf = {}
    /\ phys = {}
    /\ raised = FALSE
    /\ pc = "topo_instance"
    /\ port_id = 1
    /\ self_links = <<>>
    /\ nodes = <<>>
    /\ links = <<>>
    /\ resolved = <<>>
    /\ visited = <<>>
    /\ i = 1
    /\ link_id = 1
    /\ devices = {}
    /\ nports = <<>>
    /\ nio = <<>>
    /\ queue = <<>>
    /\ run = 1
    /\ fresh = TRUE
    /\ start_port_id = 1
    /\ first = <<>>

NextTopology == TopoNextInstance \/ TopoProcessItem \/ TopoEndInstance \/ TopoReturn

SpecTopology == InitTopology /\ [][NextTopology]_vars

\* C8: every item under every host instance is routed to the configuration
\* snippets or merged into the device records, or an error is surfaced: none is
\* skipped without effect, items whose value is no nested mapping included.
C8_EveryItemClassified ==
    pc = "topo_done" =>
        \A instance \in sections :
            \A item \in DOMAIN old_top[instance] :
                \/ <<instance, item>> \in conf
                \/ <<instance, item>> \in phys
                \/ raised

====
